---- MODULE Spec2Model ----
(***************************************************************************)
(* Model of sqlite_orm's table descriptor, dev/table.h: table_t<T, Cs...>  *)
(* and make_table.  A table is a value: its name, the elements handed to   *)
(* make_table (columns and table-level constraints, stored in impl) and    *)
(* the _without_rowid flag (field without_rowid_).  The model follows one   *)
(* make_table call, the copies made from its result by without_rowid(),    *)
(* and the queries made on the original and on the copies.  table_impl,    *)
(* column_t, tuple_helper and type_printer live in other headers; their    *)
(* traversals are taken to visit in declaration (listing) order.           *)
(***************************************************************************)
EXTENDS Integers, Sequences, FiniteSets, TLC

VARIABLES tables, declared, ret

vars == <<tables, declared, ret>>

\* ---------------------------------------------------------------- bounds
MaxCols == 2
MaxPk == 2
MaxTables == 3

\* ------------------------------------------------- the mapped record type
\* A null member pointer / getter / setter of a column.
nullptr == "nullptr"

\* Accessor handles of the mapped object type: F O::*, const F& (O::*)() const
\* and void (O::*)(F).  The field type F is part of the handle's C++ type.
member_pointer_t(id, F) == [kind |-> "member", field_type |-> F, id |-> id]
getter_type(id, F) == [kind |-> "getter", field_type |-> F, id |-> id]
setter_type(id, F) == [kind |-> "setter", field_type |-> F, id |-> id]

\* A column bound to a member pointer, and one bound to a getter and a setter.
\* dflt is <<>> (no default_value constraint) or <<d>>.
column_of_member(name, m, pk, nn, dflt) ==
    [kind |-> "column", name |-> name, field_type |-> m.field_type,
     member_pointer |-> m.id, getter |-> nullptr, setter |-> nullptr,
     primary_key |-> pk, not_null |-> nn, default_value |-> dflt]

column_of_getter_setter(name, g, s, pk, nn, dflt) ==
    [kind |-> "column", name |-> name, field_type |-> g.field_type,
     member_pointer |-> nullptr, getter |-> g.id, setter |-> s.id,
     primary_key |-> pk, not_null |-> nn, default_value |-> dflt]

\* Table-level constraints: primary_key(refs...) and foreign_key(...).
primary_key_t(refs) == [kind |-> "primary_key", columns |-> refs]
foreign_key_t == [kind |-> "foreign_key"]

\* ------------------------------------------------------------ table_impl
is_column(e) == e.kind = "column"
is_primary_key(e) == e.kind = "primary_key"

for_each_column(impl) == SelectSeq(impl, is_column)

for_each_primary_key(impl) == SelectSeq(impl, is_primary_key)

for_each_column_with_primary_key(impl) ==
    LET has_pk(e) == IF is_column(e) THEN e.primary_key ELSE FALSE
    IN  SelectSeq(impl, has_pk)

for_each_column_with_field_type(impl, F) ==
    LET same_type(e) == IF is_column(e) THEN e.field_type = F ELSE FALSE
    IN  SelectSeq(impl, same_type)

impl_columns_count(impl) == Len(SelectSeq(impl, is_column))

\* tuple_helper::iterator over pk.columns: the references in the order visited.
tuple_iterator(columns) == columns

\* ---------------------------------------------------------- type_printer
type_printer(F) ==
    CASE F = "int" -> "integer_printer"
      [] F = "bool" -> "integer_printer"
      [] F = "text" -> "text_printer"
      [] F = "real" -> "real_printer"
      [] F = "blob" -> "blob_printer"

print_type(printer) ==
    CASE printer = "integer_printer" -> "INTEGER"
      [] printer = "text_printer" -> "TEXT"
      [] printer = "real_printer" -> "REAL"
      [] printer = "blob_printer" -> "BLOB"

\* ---------------------------------------------------------------- table_t
make_table(name, args) ==
    [name |-> name, impl |-> args, without_rowid_ |-> FALSE]

\* without_rowid() that copies the receiver and forgets to set the flag.
without_rowid_flag_unset(t) == t

without_rowid(t) == [t EXCEPT !.without_rowid_ = TRUE]

RECURSIVE push_back_names(_, _)
push_back_names(cols, res) ==
    IF cols = <<>> THEN res
    ELSE push_back_names(Tail(cols), Append(res, Head(cols).name))

\* column_names() that collects the names back to front.
RECURSIVE push_front_names(_, _)
push_front_names(cols, res) ==
    IF cols = <<>> THEN res
    ELSE push_front_names(Tail(cols), <<Head(cols).name>> \o res)

column_names_reversed(t) == push_front_names(for_each_column(t.impl), <<>>)

column_names(t) == push_back_names(for_each_column(t.impl), <<>>)

columns_count(t) == impl_columns_count(t.impl)

RECURSIVE find_by_member_pointer(_, _, _)
find_by_member_pointer(cols, m, res) ==
    IF cols = <<>> THEN res
    ELSE find_by_member_pointer(Tail(cols), m,
            IF Head(cols).member_pointer = m.id THEN Head(cols).name ELSE res)

RECURSIVE find_by_getter(_, _, _)
find_by_getter(cols, g, res) ==
    IF cols = <<>> THEN res
    ELSE find_by_getter(Tail(cols), g,
            IF Head(cols).getter = g.id THEN Head(cols).name ELSE res)

RECURSIVE find_by_setter(_, _, _)
find_by_setter(cols, s, res) ==
    IF cols = <<>> THEN res
    ELSE find_by_setter(Tail(cols), s,
            IF Head(cols).setter = s.id THEN Head(cols).name ELSE res)

\* The three overloads of find_column_name, chosen by the handle's kind.
find_column_name(t, h) ==
    LET cols == for_each_column_with_field_type(t.impl, h.field_type)
    IN  CASE h.kind = "member" -> find_by_member_pointer(cols, h, "")
          [] h.kind = "getter" -> find_by_getter(cols, h, "")
          [] h.kind = "setter" -> find_by_setter(cols, h, "")

RECURSIVE push_back_found(_, _, _)
push_back_found(t, refs, res) ==
    IF refs = <<>> THEN res
    ELSE push_back_found(t, Tail(refs), Append(res, find_column_name(t, Head(refs))))

\* composite_key_columns_names(pk) that resolves the references last to first.
RECURSIVE push_front_found(_, _, _)
push_front_found(t, refs, res) ==
    IF refs = <<>> THEN res
    ELSE push_front_found(t, Tail(refs), <<find_column_name(t, Head(refs))>> \o res)

composite_key_columns_names_of_reversed(t, pk) ==
    push_front_found(t, tuple_iterator(pk.columns), <<>>)

\* composite_key_columns_names(constraints::primary_key_t<Args...> pk)
composite_key_columns_names_of(t, pk) ==
    push_back_found(t, tuple_iterator(pk.columns), <<>>)

RECURSIVE assign_each_primary_key(_, _, _)
assign_each_primary_key(t, pks, res) ==
    IF pks = <<>> THEN res
    ELSE assign_each_primary_key(t, Tail(pks),
                                 composite_key_columns_names_of(t, Head(pks)))

composite_key_columns_names(t) ==
    assign_each_primary_key(t, for_each_primary_key(t.impl), <<>>)

\* primary_key_column_names() that asks for the composite key first.
primary_key_column_names_composite_first(t) ==
    LET res == composite_key_columns_names(t)
    IN  IF Len(res) = 0
        THEN push_back_names(for_each_column_with_primary_key(t.impl), <<>>)
        ELSE res

primary_key_column_names(t) ==
    LET res == push_back_names(for_each_column_with_primary_key(t.impl), <<>>)
    IN  IF Len(res) = 0 THEN composite_key_columns_names(t) ELSE res

\* The row of a column with every declared default quoted, whatever the type.
table_info_of_always_quoted(col) ==
    [cid |-> -1, name |-> col.name, type |-> print_type(type_printer(col.field_type)),
     notnull |-> col.not_null,
     dflt_value |-> IF col.default_value # <<>>
                    THEN "'" \o col.default_value[1] \o "'" ELSE "",
     pk |-> IF col.primary_key THEN 1 ELSE 0]

\* The table_info row built for one column, before the composite-key overlay.
table_info_of(col) ==
    LET printer == type_printer(col.field_type)
        needQuotes == printer = "text_printer"
        dft == IF col.default_value # <<>>
               THEN IF needQuotes THEN "'" \o col.default_value[1] \o "'"
                    ELSE col.default_value[1]
               ELSE ""
    IN  [cid |-> -1, name |-> col.name, type |-> print_type(printer),
         notnull |-> col.not_null, dflt_value |-> dft,
         pk |-> IF col.primary_key THEN 1 ELSE 0]

\* The rows collected back to front.
RECURSIVE emplace_front_rows(_, _)
emplace_front_rows(cols, res) ==
    IF cols = <<>> THEN res
    ELSE emplace_front_rows(Tail(cols), <<table_info_of(Head(cols))>> \o res)

RECURSIVE emplace_back_rows(_, _)
emplace_back_rows(cols, res) ==
    IF cols = <<>> THEN res
    ELSE emplace_back_rows(Tail(cols), Append(res, table_info_of(Head(cols))))

\* std::find_if over res: the first row named columnName, 0 for res.end().
find_if_name(res, columnName) ==
    LET hits == {j \in DOMAIN res : res[j].name = columnName}
    IN  IF hits = {} THEN 0 ELSE CHOOSE j \in hits : \A k \in hits : j <= k

\* The loop over compositeKeyColumnNames; i is the 1-based position.
RECURSIVE overlay_pk(_, _, _)
overlay_pk(res, compositeKeyColumnNames, i) ==
    IF i > Len(compositeKeyColumnNames) THEN res
    ELSE LET it == find_if_name(res, compositeKeyColumnNames[i])
         IN  overlay_pk(IF it # 0 THEN [res EXCEPT ![it].pk = i] ELSE res,
                        compositeKeyColumnNames, i + 1)

get_table_info(t) ==
    overlay_pk(emplace_back_rows(for_each_column(t.impl), <<>>),
               composite_key_columns_names(t), 1)

\* ------------------------------------------------------- inputs of the model
TableNames == {"users"}
ColumnNames == {"a", "b"}

m_id == member_pointer_t("&User::id", "int")
m_name == member_pointer_t("&User::name", "text")
g_age == getter_type("&User::getAge", "int")
s_age == setter_type("&User::setAge", "int")
m_score == member_pointer_t("&User::score", "real")
m_photo == member_pointer_t("&User::photo", "blob")
m_active == member_pointer_t("&User::active", "bool")

\* The handles a caller can pass to find_column_name or list in primary_key().
Handles == {m_id, m_name, g_age, s_age}

\* The handles listed in primary_key(...).
KeyHandles == {m_id, m_name, g_age}

\* Sequences of length 1..n over S.
SeqUpTo(S, n) == UNION {[1..k -> S] : k \in 1..n}

\* Columns that differ in name, accessor and column-level primary key.
KeyColumns ==
    {column_of_member(n, m, pk, FALSE, <<>>) :
        n \in ColumnNames, m \in {m_id, m_name}, pk \in BOOLEAN}
    \cup {column_of_getter_setter(n, g_age, s_age, pk, FALSE, <<>>) :
        n \in ColumnNames, pk \in BOOLEAN}

\* Table-level constraints after the columns: none, a foreign key, a composite
\* primary key, or a one-column primary key followed by a foreign key.
KeyConstraints ==
    {<<>>, <<foreign_key_t>>}
    \cup {<<primary_key_t(r)>> : r \in SeqUpTo(KeyHandles, MaxPk)}
    \cup {<<primary_key_t(<<h>>), foreign_key_t>> : h \in KeyHandles}

\* Columns that differ in value type and default value; the text columns
\* are declared not_null.
InfoColumns ==
    {column_of_member(n, m, FALSE, m.field_type = "text", d) :
        n \in ColumnNames, m \in {m_id, m_name, m_score, m_photo, m_active},
        d \in {<<>>, <<"0">>, <<"abc">>}}

InfoConstraints == {<<>>}

\* A few columns and constraint lists for the table that is copied.
CopyColumns ==
    {column_of_member(n, m_id, FALSE, FALSE, <<>>) : n \in ColumnNames}
    \cup {column_of_getter_setter(n, g_age, s_age, TRUE, FALSE, <<>>) : n \in ColumnNames}

CopyConstraints ==
    {<<>>, <<foreign_key_t>>, <<primary_key_t(<<m_id>>)>>,
     <<primary_key_t(<<m_id>>), foreign_key_t>>}

\* ------------------------------------------------------------------ state
NoCall == [op |-> "none", self |-> 0, arg |-> "none", value |-> "none"]

Init ==
    /\ tables = <<>>
    /\ declared = [columns |-> <<>>, constraints |-> <<>>]
    /\ ret = NoCall

\* auto t = make_table(name, cols..., cons...), the arguments drawn from the
\* column lists over Columns and the constraint lists Constraints.
MakeTable(Columns, Constraints) ==
    /\ tables = <<>>
    /\ \E name \in TableNames, cols \in SeqUpTo(Columns, MaxCols),
          cons \in Constraints :
          /\ tables' = <<make_table(name, cols \o cons)>>
          /\ declared' = [columns |-> cols, constraints |-> cons]
    /\ ret' = [op |-> "make_table", self |-> 1, arg |-> "none", value |-> "none"]

\* auto u = tables[i].without_rowid()
CallWithoutRowid(i) ==
    /\ Len(tables) < MaxTables
    /\ tables' = Append(tables, without_rowid(tables[i]))
    /\ ret' = [op |-> "without_rowid", self |-> i, arg |-> "none",
               value |-> Len(tables) + 1]
    /\ UNCHANGED declared

CallColumnNames(i) ==
    /\ ret' = [op |-> "column_names", self |-> i, arg |-> "none",
               value |-> column_names(tables[i])]
    /\ UNCHANGED <<tables, declared>>

CallColumnsCount(i) ==
    /\ ret' = [op |-> "columns_count", self |-> i, arg |-> "none",
               value |-> columns_count(tables[i])]
    /\ UNCHANGED <<tables, declared>>

CallPrimaryKeyColumnNames(i) ==
    /\ ret' = [op |-> "primary_key_column_names", self |-> i, arg |-> "none",
               value |-> primary_key_column_names(tables[i])]
    /\ UNCHANGED <<tables, declared>>

CallFindColumnName(i, h) ==
    /\ ret' = [op |-> "find_column_name", self |-> i, arg |-> h,
               value |-> find_column_name(tables[i], h)]
    /\ UNCHANGED <<tables, declared>>

CallGetTableInfo(i) ==
    /\ ret' = [op |-> "get_table_info", self |-> i, arg |-> "none",
               value |-> get_table_info(tables[i])]
    /\ UNCHANGED <<tables, declared>>

\* The queries, each on any table made so far.
ColumnNamesCall == \E i \in DOMAIN tables : CallColumnNames(i)
ColumnsCountCall == \E i \in DOMAIN tables : CallColumnsCount(i)
PrimaryKeyColumnNamesCall == \E i \in DOMAIN tables : CallPrimaryKeyColumnNames(i)
FindColumnNameCall == \E i \in DOMAIN tables, h \in Handles : CallFindColumnName(i, h)
GetTableInfoCall == \E i \in DOMAIN tables : CallGetTableInfo(i)
WithoutRowidCall == \E i \in DOMAIN tables : CallWithoutRowid(i)

\* A table, the copies made of it and of its copies, and the queries on all
\* of them.
Next ==
    \/ MakeTable(CopyColumns, CopyConstraints)
    \/ WithoutRowidCall
    \/ ColumnNamesCall
    \/ ColumnsCountCall
    \/ PrimaryKeyColumnNamesCall
    \/ FindColumnNameCall
    \/ GetTableInfoCall

Spec == Init /\ [][Next]_vars

\* The queries on a table made from columns and constraints that differ in
\* names, accessors and keys.
NextKeys ==
    \/ MakeTable(KeyColumns, KeyConstraints)
    \/ ColumnNamesCall
    \/ ColumnsCountCall
    \/ PrimaryKeyColumnNamesCall
    \/ FindColumnNameCall
    \/ GetTableInfoCall

SpecKeys == Init /\ [][NextKeys]_vars

\* The queries on a table made from columns that differ in value type and
\* default value.
NextInfo ==
    \/ MakeTable(InfoColumns, InfoConstraints)
    \/ ColumnNamesCall
    \/ ColumnsCountCall
    \/ PrimaryKeyColumnNamesCall
    \/ FindColumnNameCall
    \/ GetTableInfoCall

SpecInfo == Init /\ [][NextInfo]_vars

\* ------------------------------------------------- vocabulary of the claims
\* The columns and table-level constraints the table was declared with.
Cols == declared.columns
Cons == declared.constraints

DeclaredNames == [i \in DOMAIN Cols |-> Cols[i].name]

DistinctNames == \A i, j \in DOMAIN Cols : i # j => Cols[i].name # Cols[j].name

\* Column c is bound to the accessor handle h: same variant, same identity.
BoundTo(c, h) ==
    /\ c.field_type = h.field_type
    /\ \/ h.kind = "member" /\ c.member_pointer = h.id
       \/ h.kind = "getter" /\ c.getter = h.id
       \/ h.kind = "setter" /\ c.setter = h.id

Owners(h) == {i \in DOMAIN Cols : BoundTo(Cols[i], h)}

SameAccessor(c, d) ==
    \/ c.member_pointer # nullptr /\ c.member_pointer = d.member_pointer
    \/ c.getter # nullptr /\ c.getter = d.getter
    \/ c.setter # nullptr /\ c.setter = d.setter

ColumnLevelPk == {i \in DOMAIN Cols : Cols[i].primary_key}

HasCompositePk == \E k \in DOMAIN Cons : Cons[k].kind = "primary_key"

PkRefs == Cons[CHOOSE k \in DOMAIN Cons : Cons[k].kind = "primary_key"].columns

\* The names of the columns marked primary key, in declaration order.
RECURSIVE MarkedNames(_)
MarkedNames(i) ==
    IF i > Len(Cols) THEN <<>>
    ELSE (IF Cols[i].primary_key THEN <<Cols[i].name>> ELSE <<>>) \o MarkedNames(i + 1)

\* The 1-based position of the first occurrence of x in seq, 0 if none.
IndexOf(seq, x) ==
    IF \E k \in DOMAIN seq : seq[k] = x
    THEN CHOOSE k \in DOMAIN seq : seq[k] = x /\ \A l \in 1..(k - 1) : seq[l] # x
    ELSE 0

\* The composite key lists exactly column B, then exactly column A, and the
\* names of B and A identify them in the table.
ListsColumns(B, A) ==
    /\ B # A
    /\ Len(PkRefs) = 2
    /\ Owners(PkRefs[1]) = {B}
    /\ Owners(PkRefs[2]) = {A}
    /\ \A i \in DOMAIN Cols : (Cols[i].name = Cols[B].name) = (i = B)
    /\ \A i \in DOMAIN Cols : (Cols[i].name = Cols[A].name) = (i = A)

\* ------------------------------------------------------------------ claims

\* C1: for a table declared with N distinctly named columns (and possibly
\* table-level constraints), column_names() returns the N names in declaration
\* order and columns_count() returns N.
C1_column_names_and_count ==
    DistinctNames =>
        /\ ret.op = "column_names" => ret.value = DeclaredNames
        /\ ret.op = "columns_count" => ret.value = Len(Cols)

C1_witness ==
    /\ ret.op = "column_names"
    /\ Len(Cols) = 2 /\ DistinctNames
    /\ Len(Cons) = 2
    /\ ret.value = <<"b", "a">>

\* C2: with no column-level primary key and a composite primary key that lists
\* column B then column A, primary_key_column_names() is <<B's name, A's name>>
\* and get_table_info() gives B pk = 1 and A pk = 2, wherever B and A stand in
\* the declaration order.
C2_composite_key_order ==
    \A B, A \in DOMAIN Cols :
        (ColumnLevelPk = {} /\ HasCompositePk /\ ListsColumns(B, A)) =>
            /\ ret.op = "primary_key_column_names" =>
                   ret.value = <<Cols[B].name, Cols[A].name>>
            /\ ret.op = "get_table_info" =>
                   /\ Len(ret.value) = Len(Cols)
                   /\ ret.value[B].pk = 1
                   /\ ret.value[A].pk = 2

C2_witness ==
    /\ ret.op = "get_table_info"
    /\ ColumnLevelPk = {} /\ HasCompositePk /\ ListsColumns(2, 1)
    /\ ret.value[2].pk = 1 /\ ret.value[1].pk = 2

\* C3: primary_key_column_names() is the names of the columns marked primary
\* key, in declaration order, when there is one; otherwise, when a composite
\* primary key is declared, one name per reference in the constraint's order,
\* each the name of a column the reference is bound to; otherwise empty.
C3_precedence ==
    ret.op = "primary_key_column_names" =>
        IF ColumnLevelPk # {} THEN ret.value = MarkedNames(1)
        ELSE IF HasCompositePk
             THEN /\ Len(ret.value) = Len(PkRefs)
                  /\ \A k \in DOMAIN PkRefs :
                        Owners(PkRefs[k]) # {} =>
                            \E i \in Owners(PkRefs[k]) : ret.value[k] = Cols[i].name
             ELSE ret.value = <<>>

C3_witness ==
    /\ ret.op = "primary_key_column_names"
    /\ ColumnLevelPk = {2} /\ HasCompositePk
    /\ Owners(PkRefs[1]) = {1}
    /\ ret.value = <<Cols[2].name>>

\* C4 (as claimed): the pk of every row of get_table_info() is the 1-based
\* position of the row's name in primary_key_column_names(), 0 if it is not in it.
C4_pk_is_position_in_primary_key_column_names ==
    ret.op = "get_table_info" =>
        \A i \in DOMAIN ret.value :
            ret.value[i].pk =
                IndexOf(primary_key_column_names(tables[ret.self]), ret.value[i].name)

\* C5 (as claimed): find_column_name on an accessor bound to no column of the
\* table does not return the empty string as its miss signal.
C5_miss_is_not_the_empty_string ==
    (ret.op = "find_column_name" /\ Owners(ret.arg) = {}) => ret.value # ""

\* C6 (as claimed): no table is built from a column list in which two columns
\* are bound to the same accessor identity.
C6_duplicate_accessor_is_rejected ==
    tables # <<>> =>
        \A i, j \in DOMAIN Cols : i # j => ~SameAccessor(Cols[i], Cols[j])

\* C7: every change of the tables is a without_rowid() call that appends a
\* copy with the flag set and the receiver's name, columns and constraints,
\* leaves the receiver and every other table as they were (the original's
\* flag stays false), and returns a table equal to the receiver when the
\* receiver's flag is already set.
C7_without_rowid_copies ==
    [][(tables # <<>> /\ tables' # tables) =>
        \E i \in DOMAIN tables :
            /\ ret'.op = "without_rowid" /\ ret'.self = i
            /\ Len(tables') = Len(tables) + 1
            /\ \A j \in DOMAIN tables : tables'[j] = tables[j]
            /\ tables'[1].without_rowid_ = FALSE
            /\ LET res == tables'[Len(tables')]
               IN  /\ res.without_rowid_ = TRUE
                   /\ res.name = tables[i].name
                   /\ res.impl = tables[i].impl
                   /\ res.impl = Cols \o Cons
                   /\ tables[i].without_rowid_ => res = tables[i]]_vars

C7_witness ==
    /\ Len(tables) = 3
    /\ ret.op = "without_rowid" /\ ret.self = 2
    /\ tables[3] = tables[2] /\ tables[2].without_rowid_
    /\ ~tables[1].without_rowid_
    /\ Len(Cols) = 2 /\ Cons # <<>>

\* C8: get_table_info() renders a declared default d as 'd' when the column's
\* value type is text and as d itself for integer, real, boolean and blob
\* columns; a column without a default gets an empty default, never quotes.
C8_default_quoting ==
    ret.op = "get_table_info" =>
        /\ Len(ret.value) = Len(Cols)
        /\ \A i \in DOMAIN Cols :
              IF Cols[i].default_value = <<>> THEN ret.value[i].dflt_value = ""
              ELSE IF Cols[i].field_type = "text"
                   THEN ret.value[i].dflt_value = "'" \o Cols[i].default_value[1] \o "'"
                   ELSE ret.value[i].dflt_value = Cols[i].default_value[1]

C8_witness ==
    /\ ret.op = "get_table_info"
    /\ Len(Cols) = 2
    /\ Cols[1].field_type = "text" /\ Cols[1].default_value = <<"abc">>
    /\ Cols[2].field_type = "int" /\ Cols[2].default_value = <<"0">>
    /\ ret.value[1].dflt_value = "'abc'"
    /\ ret.value[2].dflt_value = "0"

C10_dangling_key_reference_is_rejected ==
    (tables # <<>> /\ HasCompositePk) =>
        \A k \in DOMAIN PkRefs : Owners(PkRefs[k]) # {}

====
